---- MODULE Spec2Model ----
(***************************************************************************)
(* Model of BarcodeGen: the input validator and the label layout routine   *)
(* of src/app.py, the form handler index() that drives them, and the       *)
(* literal-list script main() of src/make_custom_barcodes.py.              *)
(*                                                                         *)
(* Python strings are sequences of one-character strings, so that strip,   *)
(* upper, len, isdigit, int and the f-string formatting are computed.      *)
(* A character outside ASCII is written by its code point ("U+00B2").      *)
(*                                                                         *)
(* Lengths are exact rationals.  MM_TO_PT = 72/25.4 = 360/127 points per   *)
(* millimetre, so every length of the layout except the scaled bar width   *)
(* is a whole number of 1/127 pt; the scaled bar width is a fraction       *)
(* [num, den] of that unit.  Python computes in binary floating point;     *)
(* rounding in the last place is not modelled.                             *)
(***************************************************************************)
EXTENDS Integers, Sequences, FiniteSets, TLC

VARIABLES
    pc,          \* position of the running program
    method,      \* request.method
    form,        \* request.form: the raw fields
    color_code,  \* argument / local of the caller
    series,      \* argument / local of the caller (normalized once validated)
    start_num,   \* argument / local of the caller
    end_num,     \* argument / local of the caller
    result,      \* outcome of validate_inputs: a return value or a raised ValueError
    flashed,     \* messages passed to flash()
    doc,         \* the canvas: "none", "open" or "saved"
    cur_page,    \* texts drawn on the page not yet closed by showPage()
    pages,       \* pages of the document, in the order showPage() appended them
    calls,       \* barcode_text of every draw_single_label call, in call order
    sizing,      \* geometry computed by the latest draw_single_label call
    i            \* loop variable: range(start_i, end_i + 1), or the index into NUMBERS

vars == <<pc, method, form, color_code, series, start_num, end_num, result,
          flashed, doc, cur_page, pages, calls, sizing, i>>

Max(a, b) == IF a >= b THEN a ELSE b
Min(a, b) == IF a <= b THEN a ELSE b

(***************************************************************************)
(* Bounds of the model.                                                    *)
(***************************************************************************)
\* Serial numbers 0..MaxSerial are offered as start/end texts.
MaxSerial == 3
\* The encoder's answers tmp.width range over 1..MaxModules.
MaxModules == 218

(***************************************************************************)
(* Python string operations used by the source.                            *)
(***************************************************************************)
Lower == <<"a","b","c","d","e","f","g","h","i","j","k","l","m",
           "n","o","p","q","r","s","t","u","v","w","x","y","z">>
Upper == <<"A","B","C","D","E","F","G","H","I","J","K","L","M",
           "N","O","P","Q","R","S","T","U","V","W","X","Y","Z">>
AsciiDigits == <<"0","1","2","3","4","5","6","7","8","9">>

Whitespace == {" "}

\* U+0663 ARABIC-INDIC DIGIT THREE: a decimal digit (Nd) of value 3.
\* U+00B2 SUPERSCRIPT TWO: Numeric_Type=Digit, not a decimal digit.
DecimalChars == {AsciiDigits[k] : k \in 1..10} \cup {"U+0663"}
DigitChars == DecimalChars \cup {"U+00B2"}

decimal_value(ch) ==
    IF ch = "U+0663" THEN 3
    ELSE (CHOOSE k \in 1..10 : AsciiDigits[k] = ch) - 1

RECURSIVE lstrip(_)
lstrip(s) == IF s # <<>> /\ Head(s) \in Whitespace THEN lstrip(Tail(s)) ELSE s

RECURSIVE rstrip(_)
rstrip(s) ==
    IF s # <<>> /\ s[Len(s)] \in Whitespace
    THEN rstrip(SubSeq(s, 1, Len(s) - 1))
    ELSE s

\* str.strip()
strip(s) == rstrip(lstrip(s))

upper_char(ch) ==
    IF \E k \in 1..26 : Lower[k] = ch
    THEN Upper[CHOOSE k \in 1..26 : Lower[k] = ch]
    ELSE ch

\* str.upper()
upper(s) == [k \in 1..Len(s) |-> upper_char(s[k])]

\* str.isdigit(): non-empty and every character is a digit character
isdigit(s) == s # <<>> /\ \A k \in 1..Len(s) : s[k] \in DigitChars

\* int(s) raises ValueError unless every character is a decimal digit
\* (sign, blanks and underscores never reach it past isdigit)
int_raises(s) == ~(s # <<>> /\ \A k \in 1..Len(s) : s[k] \in DecimalChars)

RECURSIVE int(_)
int(s) ==
    IF s = <<>> THEN 0
    ELSE 10 * int(SubSeq(s, 1, Len(s) - 1)) + decimal_value(s[Len(s)])

RECURSIVE digits(_)
digits(n) ==
    IF n < 10 THEN <<AsciiDigits[n + 1]>>
    ELSE Append(digits(n \div 10), AsciiDigits[(n % 10) + 1])

RECURSIVE zfill(_, _)
zfill(s, width) == IF Len(s) >= width THEN s ELSE zfill(<<"0">> \o s, width)

\* f"{n:04d}"
format_04d(n) == zfill(digits(n), 4)

RECURSIVE join(_, _)
\* sep.join(list)
join(sep, list) ==
    IF list = <<>> THEN <<>>
    ELSE IF Len(list) = 1 THEN <<list[1]>>
    ELSE <<list[1], sep>> \o join(sep, Tail(list))

(***************************************************************************)
(* Static tables (src/app.py).                                             *)
(***************************************************************************)
AT0001 == <<"A","T","0","0","0","1">>
AT0002 == <<"A","T","0","0","0","2">>
AT0003 == <<"A","T","0","0","0","3">>
AT0004 == <<"A","T","0","0","0","4">>

COLOURS ==
    (AT0001 :> "Black") @@ (AT0002 :> "Blue") @@
    (AT0003 :> "White") @@ (AT0004 :> "Pink")

SERIES_BY_SKU ==
    (AT0003 :> <<"A","E","I","M","Q","U","Y">>) @@
    (AT0002 :> <<"B","F","J","N","R","V","Z">>) @@
    (AT0001 :> <<"C","G","K","O","S","W">>) @@
    (AT0004 :> <<"D","H","L","P","T","X">>)

(***************************************************************************)
(* validate_inputs (src/app.py).                                           *)
(***************************************************************************)
MsgColour == "Invalid colour code. Choose one of the listed AT000X values."
MsgSeries == "Invalid series for {color_code}. Allowed: {allowed_str}"
MsgBoth == "Please provide both Start and End numbers (0001-9999)."
MsgFourDigits == "Numbers must be 4 digits, e.g., 0001, 0075, 0315."
MsgBetween == "Numbers must be between 0001 and 9999."
MsgEndStart == "End number must be greater than or equal to Start number."
MsgIntLiteral == "invalid literal for int() with base 10: {text}"

\* raise ValueError(msg); args are the values formatted into the message
Raise(msg, args) ==
    [ok |-> FALSE, msg |-> msg, args |-> args, series |-> <<>>, s |-> 0, e |-> 0]

\* return series, s, e
Return(ser, s, e) ==
    [ok |-> TRUE, msg |-> "", args |-> <<>>, series |-> ser, s |-> s, e |-> e]

\* mutant of normalize_series: the upper-casing is forgotten
normalize_series_no_upper(ser) == strip(ser)

\* series = (series or "").strip().upper()
normalize_series(ser) == upper(strip(ser))

\* x in list, for a string x and a list of one-character strings
in_list(x, list) == \E k \in 1..Len(list) : x = <<list[k]>>

\* the well-formedness test of line 111, TRUE when the error is raised
not_four_digits(a, b) ==
    Len(a) # 4 \/ Len(b) # 4 \/ ~isdigit(a) \/ ~isdigit(b)

\* the window test of line 116, TRUE when the error is raised
out_of_window(s, e) == ~(1 <= s /\ s <= 9999 /\ 1 <= e /\ e <= 9999)

\* mutant of end_before_start: start == end is rejected too
end_before_start_strict(s, e) == e <= s

\* the order test of line 118, TRUE when the error is raised
end_before_start(s, e) == e < s

validate_inputs(cc, ser, a, b) ==
    IF cc \notin DOMAIN COLOURS THEN Raise(MsgColour, <<>>)
    ELSE
      LET ser1 == normalize_series(ser)
          allowed_for_sku == SERIES_BY_SKU[cc]
      IN
      IF ~in_list(ser1, allowed_for_sku)
      THEN Raise(MsgSeries, <<cc, join(", ", allowed_for_sku)>>)
      ELSE IF ~(a # <<>> /\ b # <<>>) THEN Raise(MsgBoth, <<>>)
      ELSE IF not_four_digits(a, b) THEN Raise(MsgFourDigits, <<>>)
      ELSE IF int_raises(a) THEN Raise(MsgIntLiteral, <<a>>)
      ELSE IF int_raises(b) THEN Raise(MsgIntLiteral, <<b>>)
      ELSE
        LET s == int(a)
            e == int(b)
        IN
        IF out_of_window(s, e) THEN Raise(MsgBetween, <<>>)
        ELSE IF end_before_start(s, e) THEN Raise(MsgEndStart, <<>>)
        ELSE Return(ser1, s, e)

NoResult == Raise("", <<>>)
NoForm == [color_code |-> <<>>, series |-> <<>>, start_num |-> <<>>, end_num |-> <<>>]
NoSizing ==
    [module_count |-> 0, bar_width |-> [num |-> 0, den |-> 1], bar_height |-> 0,
     internal_quiet |-> 0, x |-> 0, y |-> 0, fits |-> FALSE]

(***************************************************************************)
(* Specification SpecValidate: validate_inputs called directly.            *)
(***************************************************************************)
ColourTexts == DOMAIN COLOURS \cup {<<"A","T","9","9","9","9">>}

SeriesTexts ==
    {<<Upper[k]>> : k \in 1..26}
    \cup {<<"d">>, <<" ","d"," ">>, <<"D","H">>, <<>>, <<"1">>}

MalformedNumTexts ==
    {<<>>, <<"1","2">>, <<"0","0","0","0","1">>, <<"0","0","a","1">>,
     <<"U+00B2","U+00B2","U+00B2","U+00B2">>}

NumTexts ==
    {format_04d(n) : n \in (0..MaxSerial) \cup {9998, 9999}}
    \cup {<<"0","0","0","U+0663">>}
    \cup MalformedNumTexts

InitValidate ==
    /\ pc = "call"
    /\ color_code \in ColourTexts
    /\ series \in SeriesTexts
    /\ start_num \in NumTexts
    /\ end_num \in NumTexts
    /\ method = "" /\ form = NoForm
    /\ result = NoResult
    /\ flashed = <<>> /\ doc = "none" /\ cur_page = <<>> /\ pages = <<>>
    /\ calls = <<>> /\ sizing = NoSizing /\ i = 0

Validate ==
    /\ pc = "call"
    /\ result' = validate_inputs(color_code, series, start_num, end_num)
    /\ pc' = "returned"
    /\ UNCHANGED <<method, form, color_code, series, start_num, end_num,
                   flashed, doc, cur_page, pages, calls, sizing, i>>

NextValidate == Validate

SpecValidate == InitValidate /\ [][NextValidate]_vars

(***************************************************************************)
(* Geometry of draw_single_label (src/app.py; the routine of               *)
(* src/make_custom_barcodes.py, lines 20-84, is the same text).            *)
(***************************************************************************)
\* model units per point
PT == 127
\* model units per millimetre: MM_TO_PT = 72.0 / 25.4 points, times PT
MM == 360

PAGE_W == 70 * MM
PAGE_H == 30 * MM

left_margin == 1 * MM
right_margin == 1 * MM
top_margin == 1 * MM
bottom_margin == 1 * MM

font_size == 8 * PT
\* 0.8 * MM_TO_PT
gap_above_text == (8 * MM) \div 10
text_band_h == font_size + gap_above_text

usable_w == PAGE_W - left_margin - right_margin
usable_h == PAGE_H - top_margin - bottom_margin - text_band_h

\* X_MIN_MM = 0.30
X_MIN_PT == (30 * MM) \div 100

QUIET_X_MULT == 10
\* mutant of quiet_each_side: min for max
quiet_each_side_min == Min(QUIET_X_MULT * X_MIN_PT, 2 * MM)

quiet_each_side == Max(QUIET_X_MULT * X_MIN_PT, 2 * MM)

BAR_HEIGHT_MM == 14
bar_height == Min(usable_h, BAR_HEIGHT_MM * MM)

\* tmp.width of the encoder at barWidth = 1pt: any positive count
ModuleCounts == 1..MaxModules

width_at_xmin(module_count) == module_count * X_MIN_PT + 2 * quiet_each_side

\* the test of line 67
fits(module_count) == width_at_xmin(module_count) <= usable_w

\* max(0.1 * MM_TO_PT, 0.05 * (usable_w / 2.0))
safety_quiet == Max((1 * MM) \div 10, (5 * (usable_w \div 2)) \div 100)

\* mutant of available_for_bars: one quiet zone subtracted, not two
available_for_bars_one_quiet == Max(usable_w - safety_quiet, 1 * PT)

\* max(usable_w - 2 * safety_quiet, 1)
available_for_bars == Max(usable_w - 2 * safety_quiet, 1 * PT)

\* bar_width, a fraction num/den of the model unit
bar_width(module_count) ==
    IF fits(module_count)
    THEN [num |-> X_MIN_PT, den |-> 1]
    ELSE [num |-> available_for_bars, den |-> module_count]

internal_quiet(module_count) ==
    IF fits(module_count) THEN quiet_each_side ELSE safety_quiet

\* mutant of origin_x: the full quiet zone is kept in the overflow branch
origin_x_full_quiet(module_count) == left_margin + quiet_each_side

origin_x(module_count) == left_margin + internal_quiet(module_count)

\* mutant of origin_y: the free space is not halved
origin_y_not_halved == bottom_margin + text_band_h + (usable_h - bar_height)

origin_y == bottom_margin + text_band_h + (usable_h - bar_height) \div 2

\* f"{barcode_text} | {color_name}"
label_text(barcode_text, color_name) == <<barcode_text, " | ", color_name>>

\* what bc.drawOn(c, x, y) is given, for the encoder's answer module_count
SizingResult(module_count) ==
    [module_count |-> module_count,
     fits |-> fits(module_count),
     bar_width |-> bar_width(module_count),
     bar_height |-> bar_height,
     internal_quiet |-> internal_quiet(module_count),
     x |-> origin_x(module_count),
     y |-> origin_y]

\* draw_single_label(c, barcode_text, color_name): the encoder answers with a
\* module count, the bars and the caption are drawn on the current page
draw_single_label(barcode_text, color_name) ==
    \E module_count \in ModuleCounts :
        /\ sizing' = SizingResult(module_count)
        /\ cur_page' = Append(cur_page,
                              [barcode |-> barcode_text,
                               caption |-> label_text(barcode_text, color_name)])
        /\ calls' = Append(calls, barcode_text)

(***************************************************************************)
(* Specification Spec: the form handler index() of src/app.py.             *)
(***************************************************************************)
FormColours == {AT0001, AT0004, <<"A","T","9","9","9","9">>, <<" ">> \o AT0004}

FormSeries == {<<"D">>, <<" ","d"," ">>, <<"C">>, <<"A">>, <<>>}

FormNums ==
    {format_04d(n) : n \in 0..MaxSerial}
    \cup {<<>>, <<"1","2">>, <<"U+00B2","U+00B2","U+00B2","U+00B2">>}

Init ==
    /\ pc = "request"
    /\ \/ method = "GET" /\ form = NoForm
       \/ /\ method = "POST"
          /\ form \in [color_code : FormColours, series : FormSeries,
                       start_num : FormNums, end_num : FormNums]
    /\ color_code = <<>> /\ series = <<>> /\ start_num = <<>> /\ end_num = <<>>
    /\ result = NoResult
    /\ flashed = <<>> /\ doc = "none" /\ cur_page = <<>> /\ pages = <<>>
    /\ calls = <<>> /\ sizing = NoSizing /\ i = 0

\* the outcome of line 132 for the submitted form
form_outcome ==
    validate_inputs(strip(form.color_code), strip(form.series),
                    strip(form.start_num), strip(form.end_num))

\* GET: render the form
Get ==
    /\ pc = "request" /\ method = "GET"
    /\ pc' = "rendered"
    /\ UNCHANGED <<method, form, color_code, series, start_num, end_num, result,
                   flashed, doc, cur_page, pages, calls, sizing, i>>

\* POST, validate_inputs raises: flash the message and redirect
PostRejected ==
    /\ pc = "request" /\ method = "POST"
    /\ ~form_outcome.ok
    /\ color_code' = strip(form.color_code)
    /\ series' = strip(form.series)
    /\ start_num' = strip(form.start_num)
    /\ end_num' = strip(form.end_num)
    /\ result' = form_outcome
    /\ flashed' = Append(flashed, [msg |-> form_outcome.msg, args |-> form_outcome.args])
    /\ pc' = "redirected"
    /\ UNCHANGED <<method, form, doc, cur_page, pages, calls, sizing, i>>

\* lines 137-143: take the validated values, create the canvas, enter the loop
build_document ==
    /\ color_code' = strip(form.color_code)
    /\ series' = form_outcome.series
    /\ start_num' = strip(form.start_num)
    /\ end_num' = strip(form.end_num)
    /\ result' = form_outcome
    /\ doc' = "open"
    /\ i' = form_outcome.s
    /\ pc' = "loop"
    /\ UNCHANGED <<method, form, flashed, cur_page, pages, calls, sizing>>

\* mutant of PostAccepted: the handler goes on whatever validate_inputs did
PostAccepted_unchecked ==
    /\ pc = "request" /\ method = "POST"
    /\ build_document

\* POST, validate_inputs returns: create the canvas and enter the loop
PostAccepted ==
    /\ pc = "request" /\ method = "POST"
    /\ form_outcome.ok
    /\ build_document

\* f"{color_code}-{series}{num_str}"
barcode_value(cc, ser, n) == cc \o <<"-">> \o ser \o format_04d(n)

\* mutant of range_last: range(start_i, end_i)
range_last_exclusive == result.e - 1

\* the last value of range(start_i, end_i + 1)
range_last == result.e

\* loop body up to draw_single_label
DrawLabel ==
    /\ pc = "loop" /\ i <= range_last
    /\ draw_single_label(barcode_value(color_code, series, i), COLOURS[color_code])
    /\ pc' = "showPage"
    /\ UNCHANGED <<method, form, color_code, series, start_num, end_num, result,
                   flashed, doc, pages, i>>

\* c.showPage(), and the loop advances
ShowPage ==
    /\ pc = "showPage"
    /\ pages' = Append(pages, cur_page)
    /\ cur_page' = <<>>
    /\ i' = i + 1
    /\ pc' = "loop"
    /\ UNCHANGED <<method, form, color_code, series, start_num, end_num, result,
                   flashed, doc, calls, sizing>>

\* loop exhausted: c.save() and send_file
Save ==
    /\ pc = "loop" /\ i > range_last
    /\ doc' = "saved"
    /\ pc' = "sent"
    /\ UNCHANGED <<method, form, color_code, series, start_num, end_num, result,
                   flashed, cur_page, pages, calls, sizing, i>>

Next == Get \/ PostRejected \/ PostAccepted \/ DrawLabel \/ ShowPage \/ Save

Spec == Init /\ [][Next]_vars

(***************************************************************************)
(* Specification SpecScript: main() of src/make_custom_barcodes.py.        *)
(***************************************************************************)
NUMBERS ==
    <<310, 315, 311, 229, 309, 313, 162, 302, 183, 304, 308, 301, 196, 131,
      199, 303, 206, 192, 130, 173, 305, 227, 178, 198, 195, 215, 191, 200,
      184, 186, 174, 181, 146, 187, 189, 175, 185, 180, 197, 194>>

COLOR_CODE == AT0004
COLOR_NAME == "Pink"
SERIES == <<"D">>

\* the k-th smallest element of NUMBERS (its elements are distinct)
kth_smallest(k) ==
    CHOOSE n \in {NUMBERS[j] : j \in 1..Len(NUMBERS)} :
        Cardinality({m \in {NUMBERS[j] : j \in 1..Len(NUMBERS)} : m < n}) = k - 1

\* mutant of number_at: for n in sorted(NUMBERS)
number_at_sorted(k) == kth_smallest(k)

\* for n in NUMBERS: the element of the k-th iteration
number_at(k) == NUMBERS[k]

\* the guard of line 91: the number is laid out, not skipped
in_bounds(n) == 1 <= n /\ n <= 9999

\* the state once the canvas is created (line 88); i indexes NUMBERS
InitScript ==
    /\ pc = "loop"
    /\ i = 1
    /\ doc = "open"
    /\ method = "" /\ form = NoForm
    /\ color_code = COLOR_CODE /\ series = SERIES
    /\ start_num = <<>> /\ end_num = <<>>
    /\ result = NoResult
    /\ flashed = <<>> /\ cur_page = <<>> /\ pages = <<>>
    /\ calls = <<>> /\ sizing = NoSizing

\* one element of NUMBERS: skipped when out of bounds, else laid out
ScriptDraw ==
    /\ pc = "loop" /\ i <= Len(NUMBERS)
    /\ IF in_bounds(number_at(i))
       THEN /\ draw_single_label(barcode_value(COLOR_CODE, SERIES, number_at(i)), COLOR_NAME)
            /\ pc' = "showPage"
            /\ i' = i
       ELSE /\ i' = i + 1
            /\ UNCHANGED <<pc, cur_page, calls, sizing>>
    /\ UNCHANGED <<method, form, color_code, series, start_num, end_num, result,
                   flashed, doc, pages>>

\* list exhausted: c.save()
ScriptSave ==
    /\ pc = "loop" /\ i > Len(NUMBERS)
    /\ doc' = "saved"
    /\ pc' = "done"
    /\ UNCHANGED <<method, form, color_code, series, start_num, end_num, result,
                   flashed, cur_page, pages, calls, sizing, i>>

NextScript == ScriptDraw \/ ShowPage \/ ScriptSave

SpecScript == InitScript /\ [][NextScript]_vars

(***************************************************************************)
(* The rules of the validator as the specification words them, and the     *)
(* lengths it names, for the properties below.                             *)
(***************************************************************************)
StatedDecimal(s) == \A k \in 1..Len(s) : s[k] \in DecimalChars

\* the value of a text of four decimal digits, position by position
StatedValue(s) ==
    1000 * decimal_value(s[1]) + 100 * decimal_value(s[2])
    + 10 * decimal_value(s[3]) + decimal_value(s[4])

StatedSeries(ser) == upper(strip(ser))

Rule1(cc) == cc \in DOMAIN COLOURS
Rule2(cc, ser) == in_list(StatedSeries(ser), SERIES_BY_SKU[cc])
Rule3(a, b) == a # <<>> /\ b # <<>>
Rule4(a, b) == Len(a) = 4 /\ Len(b) = 4 /\ StatedDecimal(a) /\ StatedDecimal(b)
Rule5(a, b) == StatedValue(a) \in 1..9999 /\ StatedValue(b) \in 1..9999
Rule6(a, b) == StatedValue(b) >= StatedValue(a)

AllRules(cc, ser, a, b) ==
    Rule1(cc) /\ Rule2(cc, ser) /\ Rule3(a, b) /\ Rule4(a, b) /\ Rule5(a, b) /\ Rule6(a, b)

FirstViolatedMessage(cc, ser, a, b) ==
    IF ~Rule1(cc) THEN MsgColour
    ELSE IF ~Rule2(cc, ser) THEN MsgSeries
    ELSE IF ~Rule3(a, b) THEN MsgBoth
    ELSE IF ~Rule4(a, b) THEN MsgFourDigits
    ELSE IF ~Rule5(a, b) THEN MsgBetween
    ELSE MsgEndStart

\* 0.30mm, 3mm, 68mm and the safety quiet zone max(0.1mm, 5% of 68mm / 2)
StatedMinModule == (3 * MM) \div 10
StatedRuleQuiet == 3 * MM
StatedUsableWidth == 68 * MM
StatedSafetyQuiet == Max(MM \div 10, (5 * (StatedUsableWidth \div 2)) \div 100)

Drawn == sizing.module_count > 0

\* the drawn text's width at the minimum module exceeds the usable width
StatedOverflow ==
    Drawn /\ sizing.module_count * StatedMinModule + 2 * StatedRuleQuiet
                 > StatedUsableWidth

\* a text of exactly four ASCII digits
AsciiFourDigits(s) == Len(s) = 4 /\ \A k \in 1..4 : \E d \in 1..10 : s[k] = AsciiDigits[d]

\* the text the k-th page of the request is to carry
StatedText(k) == color_code \o <<"-">> \o result.series \o format_04d(result.s + k - 1)

\* the serial number a barcode text ends with
SerialOf(text) == int(SubSeq(text, Len(text) - 3, Len(text)))

\* a serial number the script lays out rather than skips
StatedInRange(n) == n >= 1 /\ n <= 9999

\* the texts of the in-range elements among the first upto of NUMBERS, in list order
StatedScriptTexts(upto) ==
    LET kept == SelectSeq(SubSeq(NUMBERS, 1, upto), StatedInRange)
    IN  [k \in 1..Len(kept) |-> AT0004 \o <<"-", "D">> \o format_04d(kept[k])]

\* the submitted form, stripped, satisfies all six rules
FormValid ==
    AllRules(strip(form.color_code), strip(form.series),
             strip(form.start_num), strip(form.end_num))

(***************************************************************************)
(* C1. As claimed, overflow case: whenever the drawn text's width at the   *)
(* minimum module, moduleCount x 0.30mm + 2 x 3mm, exceeds the 68mm usable *)
(* width, the bar width is strictly below 0.30mm and moduleCount x         *)
(* barWidth plus two safety quiet zones equals the usable width.           *)
(***************************************************************************)
C1_OverflowBelowMinimumModule ==
    StatedOverflow
    => /\ sizing.bar_width.num < StatedMinModule * sizing.bar_width.den
       /\ sizing.internal_quiet = StatedSafetyQuiet
       /\ sizing.module_count * sizing.bar_width.num
              + 2 * StatedSafetyQuiet * sizing.bar_width.den
          = StatedUsableWidth * sizing.bar_width.den

(***************************************************************************)
(* C1 as amended: in the overflow case the quiet zone is the safety quiet  *)
(* zone and moduleCount x barWidth plus two safety quiet zones equals the  *)
(* usable width; the bar width is strictly below 0.30mm exactly when       *)
(* moduleCount x 0.30mm exceeds the usable width less the two safety quiet *)
(* zones (from 216 modules on), and above 0.30mm for 207..215 modules.     *)
(***************************************************************************)
C1_OverflowFillsUsableWidth ==
    StatedOverflow
    => /\ sizing.internal_quiet = StatedSafetyQuiet
       /\ sizing.module_count * sizing.bar_width.num
              + 2 * StatedSafetyQuiet * sizing.bar_width.den
          = StatedUsableWidth * sizing.bar_width.den
       /\ (sizing.bar_width.num < StatedMinModule * sizing.bar_width.den)
          <=> (sizing.module_count * StatedMinModule
                   > StatedUsableWidth - 2 * StatedSafetyQuiet)
       /\ sizing.module_count \in 207..215
              => sizing.bar_width.num > StatedMinModule * sizing.bar_width.den

C1_Witness ==
    /\ pc = "showPage"
    /\ sizing.module_count = 216
    /\ sizing.bar_width = [num |-> 23256, den |-> 216]
    /\ sizing.bar_width.num < StatedMinModule * sizing.bar_width.den

(***************************************************************************)
(* C2. Fits case: whenever moduleCount x 0.30mm + 2 x 3mm is at most the   *)
(* 68mm usable width, the bar width is exactly 0.30mm, the quiet zone is   *)
(* the full 3mm and originX is the left margin plus 3mm.                   *)
(***************************************************************************)
C2_FitsUsesMinimumModule ==
    (Drawn /\ sizing.module_count * StatedMinModule + 2 * StatedRuleQuiet
                  <= StatedUsableWidth)
    => /\ sizing.bar_width.num = StatedMinModule * sizing.bar_width.den
       /\ sizing.internal_quiet = StatedRuleQuiet
       /\ sizing.x = 1 * MM + StatedRuleQuiet

C2_Witness ==
    /\ pc = "showPage"
    /\ sizing.module_count = 206
    /\ sizing.fits
    /\ sizing.x = 4 * MM

(***************************************************************************)
(* C3. Vertical centering: for every drawn label the bar height is         *)
(* min(usableHeight, 14mm), the free space below the bars (down to the     *)
(* caption band) equals the free space above them (up to the top margin),  *)
(* and the bars overlap neither the caption band nor the top margin, in    *)
(* either sizing branch.                                                   *)
(***************************************************************************)
C3_VerticallyCentred ==
    Drawn =>
        LET band_top == bottom_margin + text_band_h
            area_top == PAGE_H - top_margin
        IN  /\ sizing.bar_height = Min(area_top - band_top, 14 * MM)
            /\ sizing.y - band_top = area_top - (sizing.y + sizing.bar_height)
            /\ sizing.y >= band_top
            /\ sizing.y + sizing.bar_height <= area_top

C3_Witness ==
    /\ Len(calls) = 2
    /\ ~sizing.fits
    /\ sizing.y > bottom_margin + text_band_h
    /\ sizing.y + sizing.bar_height < PAGE_H - top_margin

(***************************************************************************)
(* C4. validate_inputs fails with the message of the first violated rule,  *)
(* in the order colour, series, both present, four decimal digits, window  *)
(* 1..9999, end >= start; no other error escapes; it returns only when all *)
(* six rules hold.                                                         *)
(***************************************************************************)
C4_FirstViolatedRuleReported ==
    pc = "returned" =>
        IF AllRules(color_code, series, start_num, end_num)
        THEN result.ok
        ELSE /\ ~result.ok
             /\ result.msg = FirstViolatedMessage(color_code, series, start_num, end_num)

(***************************************************************************)
(* C5. For a known colour code: a series that, trimmed and upper-cased, is *)
(* in that colour's allowed set is accepted (given a valid numeric range)  *)
(* and returned normalized; any other series is rejected with the message  *)
(* that names the colour and enumerates its allowed letters.               *)
(***************************************************************************)
C5_SeriesAllowedPerColour ==
    (pc = "returned" /\ Rule1(color_code)) =>
        IF Rule2(color_code, series)
        THEN (Rule3(start_num, end_num) /\ Rule4(start_num, end_num)
              /\ Rule5(start_num, end_num) /\ Rule6(start_num, end_num)
              /\ ~int_raises(start_num) /\ ~int_raises(end_num))
             => (result.ok /\ result.series = StatedSeries(series))
        ELSE /\ ~result.ok
             /\ result.msg = MsgSeries
             /\ result.args = <<color_code, join(", ", SERIES_BY_SKU[color_code])>>

C5_Witness ==
    /\ pc = "returned"
    /\ color_code = AT0004
    /\ series = <<" ", "d", " ">>
    /\ result.ok
    /\ result.series = <<"D">>

(***************************************************************************)
(* C6. With a valid colour and series, for start and end texts of four     *)
(* ASCII digits with values in 1..9999: when start <= end the call returns *)
(* the two integers equal in value to the texts (start == end included);   *)
(* when end < start it fails with the End >= Start message.                *)
(***************************************************************************)
C6_RangeReturnedUnchanged ==
    (/\ pc = "returned"
     /\ Rule1(color_code) /\ Rule2(color_code, series)
     /\ AsciiFourDigits(start_num) /\ AsciiFourDigits(end_num)
     /\ Rule5(start_num, end_num))
    => IF StatedValue(start_num) <= StatedValue(end_num)
       THEN /\ result.ok
            /\ result.s = StatedValue(start_num)
            /\ result.e = StatedValue(end_num)
       ELSE ~result.ok /\ result.msg = MsgEndStart

C6_Witness ==
    /\ pc = "returned"
    /\ start_num = <<"0","0","0","2">>
    /\ end_num = <<"0","0","0","2">>
    /\ result.ok /\ result.s = 2 /\ result.e = 2

(***************************************************************************)
(* C7. For a validated request the handler appends one page per serial     *)
(* number: the k-th page carries exactly the text colorCode-series and     *)
(* start+k-1 zero-padded to four digits, in ascending order with nothing   *)
(* skipped or repeated; every layout call is followed by one page break    *)
(* before the next call; and the document is finalized only once it holds  *)
(* end - start + 1 pages.                                                  *)
(***************************************************************************)
C7_OnePagePerSerialAscending ==
    /\ \A k \in 1..Len(pages) :
           /\ Len(pages[k]) = 1
           /\ pages[k][1].barcode = StatedText(k)
    /\ \A k \in 1..Len(calls) : calls[k] = StatedText(k)
    /\ Len(calls) = Len(pages) + (IF pc = "showPage" THEN 1 ELSE 0)
    /\ Len(pages) <= result.e - result.s + 1
    /\ doc = "saved" => Len(pages) = result.e - result.s + 1

C7_Witness ==
    /\ pc = "sent" /\ doc = "saved"
    /\ Len(pages) = 3
    /\ pages[1][1].barcode = <<"A","T","0","0","0","4","-","D","0","0","0","1">>
    /\ pages[2][1].barcode = <<"A","T","0","0","0","4","-","D","0","0","0","2">>
    /\ pages[3][1].barcode = <<"A","T","0","0","0","4","-","D","0","0","0","3">>

(***************************************************************************)
(* C8. As claimed: the literal-list script calls the layout engine in      *)
(* ascending serial-number order, so its pages are in ascending order.     *)
(***************************************************************************)
C8_ScriptPagesAscending ==
    /\ \A j, k \in 1..Len(calls) : j < k => SerialOf(calls[j]) < SerialOf(calls[k])
    /\ \A j, k \in 1..Len(pages) :
           j < k => SerialOf(pages[j][1].barcode) < SerialOf(pages[k][1].barcode)

(***************************************************************************)
(* C8 as amended: the script calls the layout engine once per in-range     *)
(* element of NUMBERS, in list order, and the pages are appended in that   *)
(* same list order (which is not ascending).                               *)
(***************************************************************************)
C8_ScriptPagesInListOrder ==
    /\ calls = StatedScriptTexts(IF pc = "showPage" THEN i ELSE i - 1)
    /\ Len(pages) = Len(calls) - (IF pc = "showPage" THEN 1 ELSE 0)
    /\ \A k \in 1..Len(pages) :
           Len(pages[k]) = 1 /\ pages[k][1].barcode = calls[k]
    /\ doc = "saved" => Len(pages) = Len(StatedScriptTexts(Len(NUMBERS)))

C8_Witness ==
    /\ pc = "loop"
    /\ Len(pages) = 3
    /\ SerialOf(pages[1][1].barcode) = 310
    /\ SerialOf(pages[2][1].barcode) = 315
    /\ SerialOf(pages[3][1].barcode) = 311

(***************************************************************************)
(* C9. Horizontal containment: for every drawn label, in both branches,    *)
(* originX + moduleCount x barWidth + the effective quiet zone ends at or  *)
(* before pageWidth - rightMargin, the bar width and the quiet zone are    *)
(* positive, and the bar width's divisor is not zero.                      *)
(***************************************************************************)
C9_SymbolInsideRightMargin ==
    Drawn =>
        /\ sizing.bar_width.den # 0
        /\ sizing.bar_width.num > 0
        /\ sizing.internal_quiet > 0
        /\ sizing.x = 1 * MM + sizing.internal_quiet
        /\ (sizing.x + sizing.internal_quiet) * sizing.bar_width.den
               + sizing.module_count * sizing.bar_width.num
           <= (70 * MM - 1 * MM) * sizing.bar_width.den

C9_Witness ==
    /\ pc = "showPage"
    /\ ~sizing.fits
    /\ sizing.module_count = 208
    /\ sizing.bar_width.den = 208
    /\ sizing.internal_quiet = 612

(***************************************************************************)
(* C10. Validation precedes layout: after a rejected form the handler has  *)
(* only flashed the message and redirected: no document, no layout call,   *)
(* no page; and a document or a layout call exists only for a form whose   *)
(* stripped fields satisfy all six rules, every call's text being built    *)
(* from the colour code, the normalized series and a serial number of the  *)
(* validated range.                                                        *)
(***************************************************************************)
C10_ValidationPrecedesLayout ==
    /\ (method = "POST" /\ ~FormValid) =>
           /\ doc = "none" /\ calls = <<>> /\ pages = <<>> /\ cur_page = <<>>
           /\ pc \in {"request", "redirected"}
           /\ pc = "redirected" => (~result.ok /\ Len(flashed) = 1
                                    /\ flashed[1].msg = result.msg)
    /\ (doc # "none" \/ calls # <<>>) =>
           /\ FormValid /\ result.ok /\ flashed = <<>>
           /\ \A k \in 1..Len(calls) :
                  \E n \in StatedValue(strip(form.start_num))
                             ..StatedValue(strip(form.end_num)) :
                      calls[k] = strip(form.color_code) \o <<"-">>
                                   \o StatedSeries(form.series) \o format_04d(n)

C10_Witness ==
    /\ pc = "redirected"
    /\ result.msg = MsgEndStart
    /\ Len(flashed) = 1
    /\ doc = "none" /\ calls = <<>> /\ pages = <<>>

====
